---- MODULE Spec2Model ----
(***************************************************************************)
(* Power-plant ingestion / query service (backend/app).                    *)
(*                                                                         *)
(* State: the object store (bucket), the process-wide dataset cache of     *)
(* services.py, the states cache of each application module (main.py and   *)
(* routes/power_plants.py keep one each), the wall clock, and the last     *)
(* request with its response.  One action per HTTP handler; each handler   *)
(* is an `async def` whose body never yields between its reads and writes  *)
(* of the shared state, so it is one atomic step of the event loop.        *)
(*                                                                         *)
(* Tables are modelled as pandas sees them: a sequence of column labels    *)
(* (duplicates allowed) and rows of typed cells.  CSV text is modelled by  *)
(* tokens and read_csv / to_csv by what they do to them (per-column type   *)
(* inference, NaN written as the empty field, floats written with ".0").   *)
(***************************************************************************)
EXTENDS Integers, Sequences, FiniteSets, TLC

----------------------------------------------------------------------------
(* Bounds of the model *)

\* rows per uploaded file
MaxRows == 2
\* handler calls per run
MaxRequests == 2
\* the clock stops here (seconds)
MaxTime == 300
\* seconds added by one tick of the clock
TickStep == 300

----------------------------------------------------------------------------
(* Cells of a table and tokens of a CSV text *)

None == [k |-> "None", v |-> 0]

\* NaN in a DataFrame; the empty field in a CSV text
Na == [k |-> "na", v |-> 0]
\* a Python str cell; a non-numeric token
StrC(s) == [k |-> "str", v |-> s]
\* an int64 cell or Python int; an integer literal token such as 50
IntC(n) == [k |-> "int", v |-> n]
\* a float64 cell; a decimal literal token such as 50.0
FltC(n) == [k |-> "float", v |-> n]
\* a Python str holding an integer literal ("50" inside an object column)
IStrC(n) == [k |-> "istr", v |-> n]
\* a Python str holding a decimal literal ("50.0" inside an object column)
FStrC(n) == [k |-> "fstr", v |-> n]

\* a value held where None may be held
Some(x) == [k |-> "some", v |-> x]

IsNa(c) == c.k = "na"

Range(s) == {s[i] : i \in DOMAIN s}

\* pd.DataFrame(): no columns, no rows
EmptyDF == [cols |-> <<>>, rows |-> <<>>]

\* DataFrame.empty: no rows or no columns
DfEmpty(df) == df.rows = <<>> \/ df.cols = <<>>

\* positions of the columns carrying a label
ColIdx(df, label) == {i \in DOMAIN df.cols : df.cols[i] = label}

\* `label in df.columns`
HasCol(df, label) == ColIdx(df, label) # {}

\* the one position of a label that occurs exactly once
TheCol(df, label) == CHOOSE i \in ColIdx(df, label) : TRUE

\* dtype pandas holds a column under, from its cells
DType(df, i) ==
    IF \E r \in DOMAIN df.rows : df.rows[r][i].k \in {"str", "istr", "fstr"}
    THEN "object"
    ELSE IF df.rows # <<>> /\ \A r \in DOMAIN df.rows : df.rows[r][i].k = "int"
         THEN "int"
         ELSE "float"

----------------------------------------------------------------------------
(* pandas.read_csv, pandas.read_excel, DataFrame.to_csv *)

\* column type inferred by read_csv from the tokens of column i
CsvColKind(rows, i) ==
    IF \A r \in DOMAIN rows : rows[r][i].k \in {"na", "int", "float"}
    THEN IF rows # <<>> /\ \A r \in DOMAIN rows : rows[r][i].k = "int"
         THEN "int"
         ELSE "float"
    ELSE "object"

\* the cell read_csv makes of a token in a column of the inferred kind
CsvCell(kind, tok) ==
    CASE kind = "int" -> tok
      [] kind = "float" -> IF tok.k = "na" THEN Na ELSE FltC(tok.v)
      [] OTHER -> CASE tok.k = "int" -> IStrC(tok.v)
                    [] tok.k = "float" -> FStrC(tok.v)
                    [] OTHER -> tok

\* pd.read_csv(BytesIO(content), encoding='utf-8'): ok = FALSE when it raises
ReadCsv(content) ==
    IF content.fmt # "csv"
    THEN [ok |-> FALSE, df |-> EmptyDF]
    ELSE [ok |-> TRUE,
          df |-> [cols |-> content.cols,
                  rows |-> [r \in DOMAIN content.rows |->
                             [i \in DOMAIN content.cols |->
                                CsvCell(CsvColKind(content.rows, i), content.rows[r][i])]]]]

\* the cell read_excel makes of a sheet cell: a worksheet stores typed values,
\* so a number inside a text column stays a number
XlsCell(kind, tok) ==
    CASE kind = "float" -> IF tok.k = "na" THEN Na ELSE FltC(tok.v)
      [] OTHER -> tok

\* pd.read_excel(BytesIO(content), sheet_name='GEN23')
ReadExcel(content) ==
    IF content.fmt # "xlsx"
    THEN [ok |-> FALSE, df |-> EmptyDF]
    ELSE [ok |-> TRUE,
          df |-> [cols |-> content.cols,
                  rows |-> [r \in DOMAIN content.rows |->
                             [i \in DOMAIN content.cols |->
                                XlsCell(CsvColKind(content.rows, i), content.rows[r][i])]]]]

\* the token to_csv writes for a cell
ToCsvCell(c) ==
    CASE c.k = "istr" -> IntC(c.v)
      [] c.k = "fstr" -> FltC(c.v)
      [] OTHER -> c

\* api_df.to_csv(buffer, index=False): header row and one line per row
ToCsv(df) ==
    [fmt |-> "csv",
     cols |-> df.cols,
     rows |-> [r \in DOMAIN df.rows |->
                [i \in DOMAIN df.cols |-> ToCsvCell(df.rows[r][i])]]]

----------------------------------------------------------------------------
(* utils/data_cleaner.py *)

\* columns_mapping: legacy eGRID code -> long-form name
columns_mapping ==
    ("SEQGEN23" :> "Generator file sequence number") @@
    ("YEAR" :> "Data Year") @@
    ("PSTATEABB" :> "Plant state abbreviation") @@
    ("PNAME" :> "Plant name") @@
    ("ORISPL" :> "DOE/EIA ORIS plant or facility code") @@
    ("GENID" :> "Generator ID") @@
    ("NUMBLR" :> "Number of associated boilers") @@
    ("GENSTAT" :> "Generator status") @@
    ("PRMVR" :> "Generator prime mover type") @@
    ("FUELG1" :> "Generator primary fuel") @@
    ("NAMEPCAP" :> "Generator nameplate capacity (MW)") @@
    ("CFACT" :> "Generator capacity factor") @@
    ("GENNTAN" :> "Generator annual net generation (MWh)") @@
    ("GENNTOZ" :> "Generator ozone season net generation (MWh)") @@
    ("GENERSRC" :> "Generation data source") @@
    ("GENYRONL" :> "Generator year on-line") @@
    ("GENYRRET" :> "Generator planned or actual retirement year")

\* fill_values: the default written over NaN, per long-form column
fill_values ==
    ("Number of associated boilers" :> IntC(0)) @@
    ("Generator nameplate capacity (MW)" :> IntC(0)) @@
    ("Generator capacity factor" :> IntC(0)) @@
    ("Generator annual net generation (MWh)" :> IntC(0)) @@
    ("Generator ozone season net generation (MWh)" :> IntC(0)) @@
    ("Generator planned or actual retirement year" :> IntC(0)) @@
    ("Generator status" :> StrC("Unknown")) @@
    ("Generator prime mover type" :> StrC("Unknown")) @@
    ("Generator primary fuel" :> StrC("Unknown")) @@
    ("Generation data source" :> StrC("Unknown"))

\* type_conversions: the dtype asked of each long-form column
type_conversions ==
    ("Data Year" :> "int") @@
    ("Generator nameplate capacity (MW)" :> "float") @@
    ("Generator capacity factor" :> "float") @@
    ("Generator annual net generation (MWh)" :> "float") @@
    ("Generator ozone season net generation (MWh)" :> "float") @@
    ("Generator year on-line" :> "int") @@
    ("Generator planned or actual retirement year" :> "int")

\* df.rename(columns=rename_dict): only the labels that are legacy codes change
RenameColumns(df) ==
    [df EXCEPT !.cols = [i \in DOMAIN df.cols |->
        IF df.cols[i] \in DOMAIN columns_mapping
        THEN columns_mapping[df.cols[i]]
        ELSE df.cols[i]]]

\* the value fillna writes into a column of the given dtype: a float64 column
\* takes 0 as 0.0, an object column keeps the Python int
FillCell(dtype, fill) ==
    IF fill.k = "int" /\ dtype = "float" THEN FltC(fill.v) ELSE fill

\* df.fillna(fill_dict, inplace=True) over the fill_values columns that exist
FillNa(df) ==
    [df EXCEPT !.rows = [r \in DOMAIN df.rows |->
        [i \in DOMAIN df.cols |->
            IF df.cols[i] \in DOMAIN fill_values /\ IsNa(df.rows[r][i])
            THEN FillCell(DType(df, i), fill_values[df.cols[i]])
            ELSE df.rows[r][i]]]]

\* rows with the first occurrence of each distinct row, in order
RECURSIVE KeepFirst(_)
KeepFirst(rows) ==
    IF rows = <<>> THEN <<>>
    ELSE LET n == Len(rows)
             init == KeepFirst(SubSeq(rows, 1, n - 1))
         IN  IF \E i \in 1..(n - 1) : rows[i] = rows[n]
             THEN init
             ELSE Append(init, rows[n])

\* drop_duplicates left out: every row is kept
DropDuplicatesSkipped(df) == df

\* df.drop_duplicates(inplace=True): whole rows, over every column
DropDuplicates(df) == [df EXCEPT !.rows = KeepFirst(df.rows)]

\* whether Series.astype(dtype) succeeds on column i
CanCast(df, i, dtype) ==
    \A r \in DOMAIN df.rows :
        LET c == df.rows[r][i]
        IN  /\ c.k # "str"
            /\ dtype = "int" => c.k \in {"int", "float", "istr"}

\* the cell astype(dtype) makes
CastCell(c, dtype) ==
    IF c.k = "na" THEN Na
    ELSE IF dtype = "float" THEN FltC(c.v) ELSE IntC(c.v)

\* df[col] = df[col].astype(dtype, errors='ignore') for the type_conversions
\* columns that exist; a column that cannot be cast is left as it is
ConvertTypes(df) ==
    [df EXCEPT !.rows = [r \in DOMAIN df.rows |->
        [i \in DOMAIN df.cols |->
            IF /\ df.cols[i] \in DOMAIN type_conversions
               /\ CanCast(df, i, type_conversions[df.cols[i]])
            THEN CastCell(df.rows[r][i], type_conversions[df.cols[i]])
            ELSE df.rows[r][i]]]]

\* clean_dataframe(df): rename, fill defaults, drop duplicates, convert types
clean_dataframe(df) == ConvertTypes(DropDuplicates(FillNa(RenameColumns(df))))

\* clean_csv_data(file_content): an unreadable file gives the empty DataFrame
clean_csv_data(content) ==
    LET rd == ReadCsv(content)
    IN  IF rd.ok THEN clean_dataframe(rd.df) ELSE EmptyDF

\* clean_excel_data(file_content, sheet_name='GEN23')
clean_excel_data(content) ==
    LET rd == ReadExcel(content)
    IN  IF rd.ok THEN clean_dataframe(rd.df) ELSE EmptyDF

\* api_columns, in the order of the dict: <<long-form name, API name>>
api_columns ==
    << <<"Generator ID", "GENID">>,
       <<"Plant name", "PNAME">>,
       <<"Plant state abbreviation", "PSTATEABB">>,
       <<"DOE/EIA ORIS plant or facility code", "ORISPL">>,
       <<"Generator annual net generation (MWh)", "GENNTAN">> >>

\* the label convert_to_api_format reads for entry p of api_columns: the
\* long-form name when present, else the API name, else none
SourceLabel(df, p) ==
    IF HasCol(df, api_columns[p][1]) THEN api_columns[p][1]
    ELSE IF HasCol(df, api_columns[p][2]) THEN api_columns[p][2]
    ELSE "<absent>"

\* convert_to_api_format(df): the five API columns or, on any exception, the
\* empty DataFrame.  A missing column raises ValueError; a label carried by
\* two columns makes df[label] a DataFrame, whose assignment to one column
\* raises.
convert_to_api_format(df) ==
    IF \E p \in DOMAIN api_columns :
          Cardinality(ColIdx(df, SourceLabel(df, p))) # 1
    THEN EmptyDF
    ELSE [cols |-> [p \in DOMAIN api_columns |-> api_columns[p][2]],
          rows |-> [r \in DOMAIN df.rows |->
                     [p \in DOMAIN api_columns |->
                        df.rows[r][TheCol(df, SourceLabel(df, p))]]]]

----------------------------------------------------------------------------
(* The universe of values, in the order Python compares them *)

\* state codes, ascending
StateCodes == <<"CA", "NY", "ZZ">>

\* plant names, ascending
PlantNames == <<"Alpha", "Beta">>

\* position of a value in an ascending universe
Rank(universe, x) == CHOOSE i \in DOMAIN universe : universe[i] = x

----------------------------------------------------------------------------
(* services.py *)

\* the stem of every cleaned blob taken to be one fixed name
CleanedStemFixed(stem) == "cleaned_" \o "a"

\* S3_BUCKET_NAME is one bucket: the store maps blob names to contents.
\* A blob name is [stem, ext], written stem.ext.
CleanedStem(stem) == "cleaned_" \o stem

\* names in the order a bucket listing returns them (ascending)
NameBefore(a, b) ==
    LET order == <<"a", "b", "cleaned_a", "cleaned_b", "notes">>
        exts == <<"csv", "txt", "xlsx">>
    IN  \/ Rank(order, a.stem) < Rank(order, b.stem)
        \/ a.stem = b.stem /\ Rank(exts, a.ext) < Rank(exts, b.ext)

RECURSIVE Listing(_)
Listing(names) ==
    IF names = {} THEN <<>>
    ELSE LET first == CHOOSE n \in names : \A m \in names \ {n} : NameBefore(n, m)
         IN  <<first>> \o Listing(names \ {first})

\* required_columns of process_csv_data, in its order
required_columns == <<"GENID", "PNAME", "PSTATEABB", "GENNTAN", "ORISPL">>

\* pd.to_numeric(cell, errors="coerce")
ToNumeric(dtype, c) ==
    IF dtype # "object" THEN c
    ELSE IF c.k \in {"istr", "fstr", "int", "float"} THEN FltC(c.v) ELSE Na

\* process_csv_data(file_content): the five legacy columns of one stored file,
\* GENNTAN coerced to a number, rows with NaN in GENNTAN, PSTATEABB, PNAME or
\* ORISPL dropped; the empty DataFrame when the file cannot be read or lacks a
\* required column
process_csv_data(content) ==
    LET rd == ReadCsv(content)
        df == rd.df
    IN  IF ~rd.ok \/ \E q \in DOMAIN required_columns :
                        Cardinality(ColIdx(df, required_columns[q])) # 1
        THEN EmptyDF
        ELSE LET pos == [q \in DOMAIN required_columns |->
                            TheCol(df, required_columns[q])]
                 sel == [r \in DOMAIN df.rows |->
                           [q \in DOMAIN required_columns |->
                              IF required_columns[q] = "GENNTAN"
                              THEN ToNumeric(DType(df, pos[q]), df.rows[r][pos[q]])
                              ELSE df.rows[r][pos[q]]]]
                 keep(row) == \A q \in {2, 3, 4, 5} : ~IsNa(row[q])
             IN  [cols |-> required_columns, rows |-> SelectSeq(sel, keep)]

\* pd.concat(all_data, ignore_index=True): columns in order of first
\* appearance, rows one frame after the other
RECURSIVE Concat(_)
Concat(frames) ==
    IF frames = <<>> THEN EmptyDF
    ELSE LET rest == Concat(Tail(frames))
             f == Head(frames)
         IN  IF f.cols = <<>> THEN rest
             ELSE [cols |-> f.cols, rows |-> f.rows \o rest.rows]

\* the scan of get_data_from_s3 (lines 56-103), the same under either client:
\* list the bucket, keep the names ending in .csv, read and process each,
\* concatenate.  `fault`: a store call raises.  cached: the cache is replaced.
ScanStore(st, fault) ==
    LET files == SelectSeq(Listing(DOMAIN st), LAMBDA n : n.ext = "csv")
        all_data == [i \in DOMAIN files |-> process_csv_data(st[files[i]])]
    IN  IF fault
        THEN [data |-> EmptyDF, cached |-> FALSE, ops |-> <<"list">>]
        ELSE IF all_data = <<>>
        THEN [data |-> EmptyDF, cached |-> FALSE, ops |-> <<"list">>]
        ELSE [data |-> Concat(all_data), cached |-> TRUE,
              ops |-> <<"list">> \o [i \in DOMAIN files |-> "get"]]

\* seconds a cached dataset is served for
CacheTTL == 300

\* isinstance(s3_client, boto3.client) at line 57.  boto3.client is the
\* module-level factory function, not a class, so isinstance raises
\* TypeError("isinstance() arg 2 must be a type, ...") whatever the client is.
\* The call is outside the try blocks of lines 59 and 78.
IsInstanceBoto3Client(client) == "TypeError"

\* get_data_from_s3(s3_client) at time t with the cache (cache, ts):
\* the outcome [raised, data, cache, ts, ops]
get_data_from_s3(client, st, cache, ts, t, fault) ==
    IF cache # None /\ ts # None /\ t - ts.v < CacheTTL
    THEN [raised |-> FALSE, data |-> cache.v, cache |-> cache, ts |-> ts, ops |-> <<>>]
    ELSE LET isBoto == IsInstanceBoto3Client(client)
             scan == ScanStore(st, fault)
         IN  IF isBoto = "TypeError"
             THEN [raised |-> TRUE, data |-> EmptyDF, cache |-> cache, ts |-> ts,
                   ops |-> <<>>]
             ELSE [raised |-> FALSE, data |-> scan.data,
                   cache |-> IF scan.cached THEN Some(scan.data) ELSE cache,
                   ts |-> IF scan.cached THEN IntC(t) ELSE ts,
                   ops |-> scan.ops]

----------------------------------------------------------------------------
(* The aggregation of get_plants (routes/power_plants.py and main.py) *)

\* str(value) of a cell
PyStr(c) ==
    CASE c.k = "int" -> IStrC(c.v)
      [] c.k = "float" -> FStrC(c.v)
      [] OTHER -> c

\* app.models.PowerPlant(id=..., name=..., state=..., netGeneration=...)
PowerPlant(id, name, state, netGeneration) ==
    [id |-> id, name |-> name, state |-> state, netGeneration |-> netGeneration]

\* column position of a label of the consolidated dataset
DataCol(label) == CHOOSE q \in DOMAIN required_columns : required_columns[q] = label

\* data[data["PSTATEABB"] == state]
StateData(data, state) ==
    SelectSeq(data.rows, LAMBDA row : row[DataCol("PSTATEABB")] = StrC(state))

RECURSIVE SumCells(_)
SumCells(cells) ==
    IF cells = <<>> THEN 0 ELSE Head(cells).v + SumCells(Tail(cells))

\* groupby(["ORISPL", "PNAME"]).agg({"GENNTAN": "sum"}).reset_index():
\* one <<ORISPL, PNAME, sum>> per distinct pair
PlantTotals(rows) ==
    LET keyOf(row) == <<row[DataCol("ORISPL")], row[DataCol("PNAME")]>>
        keys == {keyOf(rows[r]) : r \in DOMAIN rows}
        gen(key) == [r \in DOMAIN SelectSeq(rows, LAMBDA row : keyOf(row) = key) |->
                       SelectSeq(rows, LAMBDA row : keyOf(row) = key)[r][DataCol("GENNTAN")]]
    IN  {<<key[1], key[2], SumCells(gen(key))>> : key \in keys}

\* the orders sort_values("GENNTAN", ascending=False) can leave the groups
\* in: non-increasing in the sum, ties in an order the sort does not promise
SortedByGeneration(totals) ==
    {s \in [1..Cardinality(totals) -> totals] :
        /\ \A i, j \in DOMAIN s : i # j => s[i] # s[j]
        /\ \A i \in DOMAIN s : i < Len(s) => s[i][3] >= s[i + 1][3]}

\* DataFrame.head(n): the first n rows, or all but the last -n when n < 0
HeadRows(s, n) ==
    IF n >= 0
    THEN SubSeq(s, 1, IF n < Len(s) THEN n ELSE Len(s))
    ELSE SubSeq(s, 1, Len(s) + n)

\* the bodies get_plants can return for a non-empty dataset (lines 111-136)
TopPlants(data, state, limit) ==
    LET state_data == StateData(data, state)
    IN  IF state_data = <<>> THEN {<<>>}
        ELSE {[i \in DOMAIN HeadRows(s, limit) |->
                 PowerPlant(PyStr(s[i][1]), s[i][2], state, FltC(s[i][3]))] :
              s \in SortedByGeneration(PlantTotals(state_data))}

\* data["PSTATEABB"].unique().tolist() followed by states.sort()
SortedStates(data) ==
    LET present == {data.rows[r][DataCol("PSTATEABB")] : r \in DOMAIN data.rows}
    IN  SelectSeq(StateCodes, LAMBDA c : StrC(c) \in present)

----------------------------------------------------------------------------
(* Requests the model issues *)

\* cells of the five fields and of the YEAR column of a row, in this order:
\* generator id, plant name, plant state, plant code, net generation, year
BaseRows ==
    { <<StrC("G1"), StrC("Alpha"), StrC("CA"), IntC(55), IntC(100), IntC(2023)>>,
      <<StrC("G2"), StrC("Alpha"), StrC("CA"), IntC(55), IntC(50), IntC(2023)>>,
      <<StrC("G1"), StrC("Beta"), StrC("NY"), IntC(66), Na, IntC(2023)>>,
      <<StrC("G1"), StrC("Beta"), StrC("NY"), IntC(66), IntC(0), IntC(2023)>>,
      <<Na, Na, StrC("CA"), Na, StrC("abc"), IntC(2023)>> }

\* rows that differ from a base row in the YEAR column or in one null field
ExtraRows ==
    { <<StrC("G1"), StrC("Alpha"), StrC("CA"), IntC(55), IntC(100), IntC(2024)>>,
      <<Na, StrC("Alpha"), StrC("CA"), IntC(55), IntC(100), IntC(2023)>>,
      <<StrC("G1"), StrC("Alpha"), Na, IntC(55), IntC(100), IntC(2023)>> }

SeqsUpTo(S, n) == UNION {[1..m -> S] : m \in 0..n}

\* a header: <<label, field>> per column, field indexing the row tuples
HLegacy == << <<"GENID", 1>>, <<"PNAME", 2>>, <<"PSTATEABB", 3>>,
              <<"ORISPL", 4>>, <<"GENNTAN", 5>> >>
HLong == [p \in 1..5 |-> <<api_columns[p][1], p>>]
HLegacyYear == HLegacy \o << <<"YEAR", 6>> >>
HMixed == << <<"GENID", 1>>, <<"Plant name", 2>>, <<"PSTATEABB", 3>>,
             <<"DOE/EIA ORIS plant or facility code", 4>>, <<"GENNTAN", 5>> >>
HBoth == HLegacy \o << <<"Plant name", 2>> >>
Without(h, q) == SelectSeq(h, LAMBDA c : c[2] # q)

ValidHeaders == {HLegacy, HLong, HLegacyYear, HMixed}
LackingHeaders == {Without(HLegacy, q) : q \in 1..5} \cup {Without(HLong, q) : q \in {4, 5}}

\* the file with the given header whose lines are the given rows
Table(fmt, h, rows) ==
    [fmt |-> fmt,
     cols |-> [i \in DOMAIN h |-> h[i][1]],
     rows |-> [r \in DOMAIN rows |-> [i \in DOMAIN h |-> rows[r][h[i][2]]]]]

SampleRows == CHOOSE r \in BaseRows : r[1] = StrC("G1") /\ r[5] = IntC(100)

Contents ==
    {Table("csv", HLegacy, rs) : rs \in SeqsUpTo(BaseRows, MaxRows)}
    \cup {Table("csv", HLegacyYear, <<SampleRows, x>>) : x \in BaseRows \cup ExtraRows}
    \cup {Table("csv", h, <<SampleRows, x>>) : h \in {HLong, HMixed}, x \in ExtraRows}
    \cup {Table("csv", h, <<SampleRows>>) : h \in LackingHeaders \cup {HBoth}}
    \cup {[fmt |-> "bad", cols |-> <<>>, rows |-> <<>>]}

FileName(stem, ext) == [stem |-> stem, ext |-> ext]

\* the uploads: every content as a.csv, a few under other names
Files ==
    {[name |-> FileName("a", "csv"), content |-> c] : c \in Contents}
    \cup {[name |-> FileName("b", "csv"), content |-> Table("csv", h, <<SampleRows>>)] :
            h \in {HLong, Without(HLegacy, 4)}}
    \cup {[name |-> FileName("a", "xlsx"), content |-> Table(f, HLegacy, <<x>>)] :
            f \in {"csv", "xlsx"}, x \in BaseRows}
    \cup {[name |-> FileName("notes", "txt"), content |-> Table("csv", HLegacy, <<SampleRows>>)]}

NoFile == [name |-> FileName("", ""), content |-> [fmt |-> "bad", cols |-> <<>>, rows |-> <<>>]]

QueryStates == {"CA", "NY", "ZZ"}
QueryLimits == {-1, 0, 1, 10}

----------------------------------------------------------------------------
(* State *)

VARIABLES
    backend,               \* the client get_s3_client builds: "boto3" or "minio"
    store,                 \* the bucket: blob name -> content
    data_cache,            \* services.data_cache
    data_cache_timestamp,  \* services.data_cache_timestamp
    states_cache,          \* routes/power_plants.py states_cache
    main_states_cache,     \* main.py states_cache
    now,                   \* pd.Timestamp.now(), in seconds
    nreq,                  \* handler calls so far
    last,                  \* the last request
    resp,                  \* its response
    ops,                   \* the store calls it made, in order
    uploaded               \* history: the latest upload that was stored

vars == <<backend, store, data_cache, data_cache_timestamp, states_cache,
          main_states_cache, now, nreq, last, resp, ops, uploaded>>

\* a request; fault: a store call made for it fails
Request(op, entry, file, state, limit, fault) ==
    [op |-> op, entry |-> entry, file |-> file, state |-> state, limit |-> limit,
     fault |-> fault]

\* a response: the HTTP status, why it failed, the body of a query, the
\* filename and records_count of an upload
Response(status, detail, body, name, count) ==
    [status |-> status, detail |-> detail, body |-> body, name |-> name, count |-> count]

Failure(status, detail) == Response(status, detail, <<>>, None, None)

\* the record kept of a stored upload: the blob name it was stored under,
\* when, the file, the entry point, and whether the stored upload before it
\* was this same file through the same entry point
Stored(key, at, file, entry, again) ==
    [key |-> key, at |-> at, file |-> file, entry |-> entry, again |-> again]

\* the record of the upload just stored, after the one recorded in u
StoredAfter(u, key, at, file, entry) ==
    Stored(Some(key), at, file, entry,
           u.key = Some(key) /\ u.file = file /\ u.entry = entry)

Init ==
    /\ backend \in {"boto3", "minio"}
    /\ store = <<>>
    /\ data_cache = None
    /\ data_cache_timestamp = None
    /\ states_cache = None
    /\ main_states_cache = None
    /\ now = 0
    /\ nreq = 0
    /\ last = Request("none", "none", NoFile, "", 0, FALSE)
    /\ resp = Failure(0, "none")
    /\ ops = <<>>
    /\ uploaded = Stored(None, 0, NoFile, "none", FALSE)

\* put_object taken to succeed whenever the client accepts the call
PutSucceedsUnchecked(client, fault) == client = "boto3"

\* s3_client.put_object(Bucket=..., Key=..., Body=...): the boto3 client
\* takes these keywords and may fail with ClientError; Minio.put_object has
\* no such keywords (bucket_name, object_name, data, length) and raises
\* TypeError before anything is sent
PutSucceeds(client, fault) == client = "boto3" /\ ~fault

\* the blob name with the extension of the upload kept
CleanedNameKeepingExtension(name) == FileName(CleanedStem(name.stem), name.ext)

\* the blob name the router stores an upload under:
\* f"cleaned_{file.filename.rsplit('.', 1)[0]}.csv"
CleanedName(name) == FileName(CleanedStem(name.stem), "csv")

\* upload_csv without the `if api_df.empty` rejection of lines 38-42
RouterCleanedUnguarded(file) ==
    LET df == IF file.name.ext = "csv"
              THEN clean_csv_data(file.content)
              ELSE clean_excel_data(file.content)
        api_df == convert_to_api_format(df)
    IN  [accepted |-> file.name.ext \in {"csv", "xlsx"},
         records_count |-> Len(api_df.rows),
         buffer |-> ToCsv(api_df)]

\* upload_csv of routes/power_plants.py up to the buffer (lines 23-47): whether
\* the file is taken, and the CSV text written to the buffer
RouterCleaned(file) ==
    LET df == IF file.name.ext = "csv"
              THEN clean_csv_data(file.content)
              ELSE clean_excel_data(file.content)
        api_df == convert_to_api_format(df)
    IN  [accepted |-> file.name.ext \in {"csv", "xlsx"} /\ ~DfEmpty(api_df),
         records_count |-> Len(api_df.rows),
         buffer |-> ToCsv(api_df)]

\* RouterCleaned of every upload of the model
RouterCleanedOf == [file \in Files |-> RouterCleaned(file)]

\* POST /api/power-plants/upload (routes/power_plants.py upload_csv)
UploadRouter(file, fault) ==
    LET c == RouterCleanedOf[file]
        key == CleanedName(file.name)
        written == c.accepted /\ PutSucceeds(backend, fault)
    IN  /\ nreq < MaxRequests
        /\ nreq' = nreq + 1
        /\ last' = Request("upload", "router", file, "", 0, fault)
        /\ resp' = IF file.name.ext \notin {"csv", "xlsx"}
                   THEN Failure(400, "extension")
                   ELSE IF ~c.accepted
                   THEN Failure(500, "columns")
                   ELSE IF ~written
                   THEN Failure(500, "store")
                   ELSE Response(200, "uploaded", <<>>, Some(key),
                                 Some(c.records_count))
        /\ ops' = IF c.accepted THEN <<"put">> ELSE <<>>
        /\ store' = IF written THEN (key :> c.buffer) @@ store ELSE store
        /\ states_cache' = IF written THEN None ELSE states_cache
        /\ uploaded' = IF written
                       THEN StoredAfter(uploaded, key, now, file, "router")
                       ELSE uploaded
        /\ UNCHANGED <<backend, data_cache, data_cache_timestamp,
                       main_states_cache, now>>

\* required_columns of main.py's upload_csv
main_required_columns == <<"GENID", "PNAME", "PSTATEABB", "GENNTAN">>

\* upload_csv of main.py up to the column check (lines 42-59): why the file
\* is refused, or "ok"
MainChecked(file) ==
    LET rd == ReadCsv(file.content)
        missing == {q \in DOMAIN main_required_columns :
                       ~HasCol(rd.df, main_required_columns[q])}
    IN  IF file.name.ext # "csv" THEN "extension"
        ELSE IF ~rd.ok THEN "decode"
        ELSE IF missing # {} THEN "columns"
        ELSE "ok"

\* MainChecked of every upload of the model
MainCheckedOf == [file \in Files |-> MainChecked(file)]

\* POST /upload (main.py upload_csv): the file is stored as it came
UploadMain(file, fault) ==
    LET verdict == MainCheckedOf[file]
        written == verdict = "ok" /\ PutSucceeds(backend, fault)
    IN  /\ nreq < MaxRequests
        /\ nreq' = nreq + 1
        /\ last' = Request("upload", "main", file, "", 0, fault)
        /\ resp' = IF verdict = "extension"
                   THEN Failure(400, "extension")
                   ELSE IF verdict # "ok"
                   THEN Failure(500, verdict)
                   ELSE IF ~written
                   THEN Failure(500, "store")
                   ELSE Response(200, "uploaded", <<>>, Some(file.name), None)
        /\ ops' = IF verdict = "ok" THEN <<"put">> ELSE <<>>
        /\ store' = IF written THEN (file.name :> file.content) @@ store ELSE store
        /\ main_states_cache' = IF written THEN None ELSE main_states_cache
        /\ uploaded' = IF written
                       THEN StoredAfter(uploaded, file.name, now, file, "main")
                       ELSE uploaded
        /\ UNCHANGED <<backend, data_cache, data_cache_timestamp,
                       states_cache, now>>

\* the states cache of the module a request enters by
StatesCacheOf(entry) == IF entry = "router" THEN states_cache ELSE main_states_cache

\* GET /api/power-plants/states and GET /states (get_states, the same body
\* in both modules, each over its own states_cache)
GetStates(entry, fault) ==
    LET cached == StatesCacheOf(entry)
        g == get_data_from_s3(backend, store, data_cache, data_cache_timestamp,
                              now, fault)
        fresh == cached = None /\ ~g.raised /\ ~DfEmpty(g.data)
        new == IF fresh THEN Some(SortedStates(g.data)) ELSE cached
    IN  /\ nreq < MaxRequests
        /\ nreq' = nreq + 1
        /\ last' = Request("states", entry, NoFile, "", 0, fault)
        /\ resp' = IF cached # None
                   THEN Response(200, "ok", cached.v, None, None)
                   ELSE IF g.raised
                   THEN Failure(500, "retrieving")
                   ELSE IF DfEmpty(g.data)
                   THEN Response(200, "ok", <<>>, None, None)
                   ELSE Response(200, "ok", new.v, None, None)
        /\ ops' = IF cached # None THEN <<>> ELSE g.ops
        /\ data_cache' = IF cached # None THEN data_cache ELSE g.cache
        /\ data_cache_timestamp' = IF cached # None THEN data_cache_timestamp ELSE g.ts
        /\ states_cache' = IF entry = "router" THEN new ELSE states_cache
        /\ main_states_cache' = IF entry = "main" THEN new ELSE main_states_cache
        /\ UNCHANGED <<backend, store, now, uploaded>>

\* GET /api/power-plants/ and GET /plants (get_plants, the same body in both
\* modules)
GetPlants(entry, state, limit, fault) ==
    LET g == get_data_from_s3(backend, store, data_cache, data_cache_timestamp,
                              now, fault)
    IN  /\ nreq < MaxRequests
        /\ nreq' = nreq + 1
        /\ last' = Request("plants", entry, NoFile, state, limit, fault)
        /\ \E body \in IF g.raised \/ DfEmpty(g.data)
                       THEN {<<>>}
                       ELSE TopPlants(g.data, state, limit) :
              resp' = IF g.raised
                      THEN Failure(500, "retrieving")
                      ELSE Response(200, "ok", body, None, None)
        /\ ops' = g.ops
        /\ data_cache' = g.cache
        /\ data_cache_timestamp' = g.ts
        /\ UNCHANGED <<backend, store, states_cache, main_states_cache, now, uploaded>>

\* time passes
Tick ==
    /\ now + TickStep <= MaxTime
    /\ now' = now + TickStep
    /\ UNCHANGED <<backend, store, data_cache, data_cache_timestamp, states_cache,
                   main_states_cache, nreq, last, resp, ops, uploaded>>

\* the bucket is changed from outside the service: a legacy export is put
\* under b.csv, or b.csv is removed
StoreChanges ==
    LET b == FileName("b", "csv")
    IN  /\ \/ store' = (b :> Table("csv", HLegacy, <<SampleRows>>)) @@ store
           \/ /\ b \in DOMAIN store
              /\ store' = [n \in DOMAIN store \ {b} |-> store[n]]
        /\ store' # store
        /\ UNCHANGED <<backend, data_cache, data_cache_timestamp, states_cache,
                       main_states_cache, now, nreq, last, resp, ops, uploaded>>

Next ==
    \/ \E file \in Files, fault \in BOOLEAN : UploadRouter(file, fault)
    \/ \E file \in Files, fault \in BOOLEAN : UploadMain(file, fault)
    \/ \E entry \in {"router", "main"}, fault \in BOOLEAN : GetStates(entry, fault)
    \/ \E entry \in {"router", "main"}, state \in QueryStates, limit \in QueryLimits,
          fault \in BOOLEAN : GetPlants(entry, state, limit, fault)
    \/ Tick
    \/ StoreChanges

Spec == Init /\ [][Next]_vars

----------------------------------------------------------------------------
(* Properties *)

\* a handler call of the given kind has just returned
Returned(op) == nreq' # nreq /\ last'.op = op

\* the cached dataset is served: it exists and is less than CacheTTL old
CacheFresh ==
    /\ data_cache # None
    /\ data_cache_timestamp # None
    /\ now - data_cache_timestamp.v < CacheTTL

\* the consolidated dataset a query is to be answered from: the cached one
\* while it is fresh, else the records of the stored .csv blobs
ConsolidatedDataset ==
    IF CacheFresh THEN data_cache.v ELSE ScanStore(store, FALSE).data

\* the columns of a file that hold field p (in the order of api_columns),
\* under the long-form or the legacy name
FieldCols(content, p) ==
    {i \in DOMAIN content.cols :
        content.cols[i] \in {api_columns[p][1], api_columns[p][2]}}

\* the file lacks one of the five required fields
LacksField(content) == \E p \in DOMAIN api_columns : FieldCols(content, p) = {}

\* line r of the file has a value in each of the five fields, and a number
\* as net generation
RowComplete(content, r) ==
    \A p \in DOMAIN api_columns :
        \E i \in FieldCols(content, p) :
            /\ ~IsNa(content.rows[r][i])
            /\ p = 5 => content.rows[r][i].k \in {"int", "float"}

\* lines of the file that are complete
CompleteRowCount(content) ==
    Cardinality({r \in DOMAIN content.rows : RowComplete(content, r)})

\* the net generation column holds only numbers and blanks
NetIsNumeric(content) ==
    \A r \in DOMAIN content.rows : \A i \in FieldCols(content, 5) :
        content.rows[r][i].k \in {"na", "int", "float"}

\* line r with a blank net generation replaced by the default 0.  In a CSV
\* column that also holds text the written 0 is a number among strings and
\* equals no token of the file.
Defaulted(content, r) ==
    [i \in DOMAIN content.cols |->
        IF i \in FieldCols(content, 5) /\ IsNa(content.rows[r][i])
        THEN IF content.fmt = "csv" /\ ~NetIsNumeric(content)
             THEN [k |-> "default", v |-> 0]
             ELSE IntC(0)
        ELSE content.rows[r][i]]

\* lines of the file that differ from each other once defaulted
DistinctRowCount(content) ==
    Cardinality({Defaulted(content, r) : r \in DOMAIN content.rows})

\* two cells hold the same value, numeric formatting aside
SameValue(a, b) ==
    \/ a = b
    \/ /\ a.k \in {"int", "float", "istr", "fstr"}
       /\ b.k \in {"int", "float", "istr", "fstr"}
       /\ a.v = b.v

\* the dataset holds the record of line r of a blob
Yields(data, blob, r) ==
    \E d \in DOMAIN data.rows :
        \A p \in DOMAIN api_columns :
            \E i \in FieldCols(blob, p) :
                SameValue(data.rows[d][DataCol(api_columns[p][2])], blob.rows[r][i])

\* C2, as the specification states it: a get_plants call finding a fresh
\* cache makes no store call; one finding no cache, or a cache CacheTTL
\* seconds old or older, goes to the store, starting with a listing.
CE_C2 ==
    [][Returned("plants") =>
          IF CacheFresh
          THEN ops' = <<>>
          ELSE ops' # <<>> /\ ops'[1] = "list"]_vars

\* C3, as the specification states it: a get_plants call whose limit exceeds
\* the number of plants answers with exactly one entry per distinct
\* (ORISPL, PNAME) pair among the rows of the state in the consolidated
\* dataset, each carrying the sum of the pair's net generation.
CE_C3 ==
    [][(Returned("plants") /\ ~last'.fault /\ last'.limit = 10) =>
          LET rows == StateData(ConsolidatedDataset, last'.state)
              pairs == {<<rows[r][DataCol("ORISPL")], rows[r][DataCol("PNAME")]>> :
                           r \in DOMAIN rows}
              of(pair) == SelectSeq(rows, LAMBDA row :
                              <<row[DataCol("ORISPL")], row[DataCol("PNAME")]>> = pair)
              total(pair) == SumCells([r \in DOMAIN of(pair) |->
                                          of(pair)[r][DataCol("GENNTAN")]])
          IN  /\ resp'.status = 200
              /\ Len(resp'.body) = Cardinality(pairs)
              /\ \A pair \in pairs : \E i \in DOMAIN resp'.body :
                    /\ resp'.body[i].id = PyStr(pair[1])
                    /\ resp'.body[i].name = pair[2]
                    /\ resp'.body[i].netGeneration.v = total(pair)]_vars

\* C5, as the specification states it: a get_plants call answers with the
\* empty sequence, not with an error, when the consolidated dataset holds no
\* row of the requested state (an empty dataset included).
CE_C5 ==
    [][(/\ Returned("plants")
        /\ ~last'.fault
        /\ StateData(ConsolidatedDataset, last'.state) = <<>>) =>
          resp'.status = 200 /\ resp'.body = <<>>]_vars

\* C6, as the specification states it: an upload, by either entry point, of
\* a file lacking one of the five required fields writes nothing to the
\* store and leaves every cache as it was.
CE_C6 ==
    [][(Returned("upload") /\ LacksField(last'.file.content)) =>
          /\ resp'.status # 200
          /\ store' = store
          /\ states_cache' = states_cache
          /\ main_states_cache' = main_states_cache
          /\ data_cache' = data_cache
          /\ data_cache_timestamp' = data_cache_timestamp]_vars

CE_C8 ==
    (/\ last.op = "upload"
     /\ resp.status = 200
     /\ resp.name.v \in DOMAIN store) =>
        \A r \in DOMAIN store[resp.name.v].rows :
            RowComplete(store[resp.name.v], r)

\* C9, as the specification states it: a query that finds no fresh cache
\* consolidates the store, and the dataset it leaves holds every record of
\* every blob the router wrote.
CE_C9 ==
    [][(Returned("plants") /\ ~last'.fault /\ ~CacheFresh) =>
          \A n \in DOMAIN store :
              n.stem \in {CleanedStem("a"), CleanedStem("b")} =>
                  /\ data_cache' # None
                  /\ \A r \in DOMAIN store[n].rows :
                        Yields(data_cache'.v, store[n], r)]_vars

\* C10, as the specification states it: a get_states call that follows a
\* successful upload through the same entry point answers with the sorted
\* distinct states of the consolidated dataset.
CE_C10 ==
    [][(/\ Returned("states")
        /\ ~last'.fault
        /\ last.op = "upload"
        /\ resp.status = 200
        /\ last.entry = last'.entry) =>
          /\ resp'.status = 200
          /\ resp'.body = SortedStates(ConsolidatedDataset)]_vars

\* a stored blob a consolidation cannot use: not a readable CSV text, or
\* lacking one of the five legacy columns
BadBlob(content) ==
    \/ content.fmt # "csv"
    \/ \E q \in DOMAIN required_columns : ~HasCol(content, required_columns[q])

\* the .csv blobs of the store
CsvBlobs == {n \in DOMAIN store : n.ext = "csv"}

\* C11, as the specification states it: a consolidation (a query finding no
\* fresh cache, the store answering) over a bucket holding a bad .csv blob
\* and a usable one leaves a dataset that holds every valid row of every
\* usable blob and, of the bad blob, nothing.
CE_C11 ==
    [][(/\ Returned("plants")
        /\ ~last'.fault
        /\ ~CacheFresh
        /\ \E n \in CsvBlobs : BadBlob(store[n])
        /\ \E n \in CsvBlobs : process_csv_data(store[n]).rows # <<>>) =>
          /\ data_cache' # None
          /\ Range(data_cache'.v.rows) =
                UNION {Range(process_csv_data(store[n]).rows) :
                          n \in {m \in CsvBlobs : ~BadBlob(store[m])}}]_vars

\* the names a listing of the store returns that end in .csv, in order
CsvListing == SelectSeq(Listing(DOMAIN store), LAMBDA n : n.ext = "csv")

\* C12, as the specification states it: a get_plants call that finds no
\* fresh cache, the store answering, lists the bucket, fetches each .csv
\* blob, and leaves as the cached dataset the per-file tables one after the
\* other, in listing order and with nothing removed across files, stamped
\* with the time of the call; so too when no blob matches and the result is
\* empty.
CE_C12 ==
    [][(Returned("plants") /\ ~last'.fault /\ ~CacheFresh) =>
          /\ ops' = <<"list">> \o [i \in DOMAIN CsvListing |-> "get"]
          /\ data_cache' =
                Some(Concat([i \in DOMAIN CsvListing |->
                                process_csv_data(store[CsvListing[i]])]))
          /\ data_cache_timestamp' = IntC(now)]_vars

UnsupportedExtension(entry, file) ==
    IF entry = "router"
    THEN file.name.ext \notin {"csv", "xlsx"}
    ELSE file.name.ext # "csv"

\* the bytes of the file are not of the format its extension names
Undecodable(file) ==
    \/ file.name.ext = "csv" /\ file.content.fmt # "csv"
    \/ file.name.ext = "xlsx" /\ file.content.fmt # "xlsx"

\* C14: an upload of a file with an unsupported extension or undecodable
\* bytes, and an upload whose store write fails, is answered as a failure,
\* leaves the store as it was (nothing is written, in part or whole) and
\* leaves both states caches, the dataset cache and its timestamp unchanged.
Thm_C14 ==
    [][(/\ Returned("upload")
        /\ \/ UnsupportedExtension(last'.entry, last'.file)
           \/ Undecodable(last'.file)
           \/ resp'.detail = "store") =>
          /\ resp'.status # 200
          /\ store' = store
          /\ states_cache' = states_cache
          /\ main_states_cache' = main_states_cache
          /\ data_cache' = data_cache
          /\ data_cache_timestamp' = data_cache_timestamp]_vars

\* C14 happens: a file whose bytes cannot be decoded was uploaded through
\* the router and refused, and no blob bears its name
Witness_C14 ==
    /\ last.op = "upload"
    /\ last.entry = "router"
    /\ Undecodable(last.file)
    /\ ~UnsupportedExtension("router", last.file)
    /\ resp.status = 500
    /\ CleanedName(last.file.name) \notin DOMAIN store

\* line f of the file carries a number as net generation, and the record of
\* line r of the blob is that line: the same five values, formatting aside
PersistedFrom(blob, r, content, f) ==
    \A p \in DOMAIN api_columns :
        \E i \in FieldCols(content, p) : \E j \in FieldCols(blob, p) :
            /\ SameValue(blob.rows[r][j], content.rows[f][i])
            /\ p = 5 => content.rows[f][i].k \in {"int", "float"}

\* C15, as the specification states it: every record of the blob an accepted
\* router upload persisted comes from a line of the file whose net
\* generation is a number, and carries that number; a line with a missing or
\* non-numeric net generation leaves no record, with 0 or otherwise.
CE_C15 ==
    (/\ last.op = "upload"
     /\ last.entry = "router"
     /\ resp.status = 200
     /\ resp.name.v \in DOMAIN store) =>
        \A r \in DOMAIN store[resp.name.v].rows :
            \E f \in DOMAIN last.file.content.rows :
                PersistedFrom(store[resp.name.v], r, last.file.content, f)

\* the other store client
OtherBackend(client) == IF client = "boto3" THEN "minio" ELSE "boto3"

\* the upload is taken by its entry point, the store write aside
Taken(entry, file) ==
    IF entry = "router"
    THEN RouterCleanedOf[file].accepted
    ELSE MainCheckedOf[file] = "ok"

\* C17, as the specification states it: a request is served the same by
\* either store client.  A consolidation gives the same outcome with the
\* other client, and an upload is stored with the client in use exactly when
\* it would be stored, on the same failure events, with the other one.
CE_C17 ==
    [][(nreq' # nreq) =>
          IF last'.op = "upload"
          THEN (resp'.status = 200) =
                  (/\ Taken(last'.entry, last'.file)
                   /\ PutSucceeds(OtherBackend(backend), last'.fault))
          ELSE get_data_from_s3(backend, store, data_cache,
                                data_cache_timestamp, now, last'.fault)
               = get_data_from_s3(OtherBackend(backend), store, data_cache,
                                  data_cache_timestamp, now, last'.fault)]_vars

\* C18: a stored router upload is stored under cleaned_<stem>.csv (one of
\* main.py under the name of the file) and touches no other blob; a stored
\* router upload that repeats the stored upload before it (the same file,
\* name and entry point) leaves the store exactly as it was, so that a scan
\* of the store finds the same rows as before it.
Thm_C18 ==
    [][(Returned("upload") /\ resp'.status = 200) =>
          LET name == last'.file.name
              key == IF last'.entry = "router"
                     THEN FileName("cleaned_" \o name.stem, "csv")
                     ELSE name
          IN  /\ resp'.name = Some(key)
              /\ DOMAIN store' = DOMAIN store \cup {key}
              /\ \A n \in DOMAIN store \ {key} : store'[n] = store[n]
              /\ (uploaded'.again /\ last'.entry = "router") =>
                    /\ store' = store
                    /\ ScanStore(store', FALSE).data = ScanStore(store, FALSE).data]_vars

\* C18 happens: a file with rows was uploaded through the router twice in a
\* row, and the store holds the one blob
Witness_C18 ==
    /\ last.op = "upload"
    /\ last.entry = "router"
    /\ resp.status = 200
    /\ uploaded.again
    /\ uploaded.file = last.file
    /\ last.file.content.rows # <<>>
    /\ DOMAIN store = {CleanedName(last.file.name)}

\* the file carries field p under both its legacy and its long-form name
HasBothNames(content, p) ==
    /\ api_columns[p][1] \in Range(content.cols)
    /\ api_columns[p][2] \in Range(content.cols)

\* the columns of the file the canonical field p is to be read from: the
\* long-form one when the file has it
PreferredCols(content, p) ==
    IF api_columns[p][1] \in Range(content.cols)
    THEN {i \in DOMAIN content.cols : content.cols[i] = api_columns[p][1]}
    ELSE FieldCols(content, p)

\* C19, as the specification states it: a readable file with rows that has
\* all five fields, one of them under both its legacy and its long-form
\* name, is accepted by the router upload (the store taking the write), and
\* every record stored carries, in each field, the value of the long-form
\* column of a line of the file.
CE_C19 ==
    [][(/\ Returned("upload")
        /\ last'.entry = "router"
        /\ backend = "boto3"
        /\ ~last'.fault
        /\ ~Undecodable(last'.file)
        /\ ~UnsupportedExtension("router", last'.file)
        /\ ~LacksField(last'.file.content)
        /\ last'.file.content.rows # <<>>
        /\ \E p \in DOMAIN api_columns : HasBothNames(last'.file.content, p)) =>
          /\ resp'.status = 200
          /\ LET content == last'.file.content
                 blob == store'[resp'.name.v]
             IN  \A r \in DOMAIN blob.rows : \E f \in DOMAIN content.rows :
                    \A p \in DOMAIN api_columns :
                       \E i \in PreferredCols(content, p) :
                          \E j \in FieldCols(blob, p) :
                             SameValue(blob.rows[r][j], content.rows[f][i])]_vars

\* the states of the complete lines of a file
ValidStates(content) ==
    {c \in Range(StateCodes) :
        \E r \in DOMAIN content.rows :
            /\ RowComplete(content, r)
            /\ \E i \in FieldCols(content, 3) : content.rows[r][i] = StrC(c)}

\* C20, as the specification states it: a query made CacheTTL seconds or
\* more after the latest stored upload, the store answering and still
\* holding the blob, serves the upload: get_states lists every state of a
\* complete line of the uploaded file, and get_plants for such a state with
\* a limit of 1 or more returns at least one plant.
CE_C20 ==
    [][(/\ nreq' # nreq
        /\ last'.op \in {"states", "plants"}
        /\ ~last'.fault
        /\ uploaded.key # None
        /\ uploaded.key.v \in DOMAIN store
        /\ now >= uploaded.at + CacheTTL) =>
          /\ resp'.status = 200
          /\ last'.op = "states" =>
                ValidStates(uploaded.file.content) \subseteq Range(resp'.body)
          /\ (/\ last'.op = "plants"
              /\ last'.limit >= 1
              /\ last'.state \in ValidStates(uploaded.file.content)) =>
                resp'.body # <<>>]_vars

\* an upload has just been stored, the stored upload before it having come
\* through the same entry point under another file name
StoredAfterOtherName ==
    /\ Returned("upload")
    /\ resp'.status = 200
    /\ uploaded.key # None
    /\ uploaded.entry = last'.entry
    /\ uploaded.file.name # last'.file.name

\* the earlier stored upload's blob is as it was
EarlierBlobKept ==
    uploaded.key.v \in DOMAIN store =>
        /\ uploaded.key.v \in DOMAIN store'
        /\ store'[uploaded.key.v] = store[uploaded.key.v]

\* C21, as the specification states it: an upload stored after one of another
\* file name is stored under another blob name and leaves the earlier blob
\* as it was.
CE_C21 ==
    [][StoredAfterOtherName =>
          /\ resp'.name # uploaded.key
          /\ EarlierBlobKept]_vars

\* C21, amended: through the router, two file names with different stems
\* are stored under different blob names and the later upload leaves the
\* earlier blob as it was, while two names that differ only in the extension
\* (a.csv, a.xlsx) are stored under the one name cleaned_<stem>.csv, which
\* the later upload overwrites with its own records; through main.py, files
\* of different names are stored under different blob names.
Thm_C21 ==
    [][StoredAfterOtherName =>
          IF last'.entry = "router" /\ uploaded.file.name.stem = last'.file.name.stem
          THEN /\ resp'.name = uploaded.key
               /\ store'[uploaded.key.v] = RouterCleaned(last'.file).buffer
          ELSE /\ resp'.name # uploaded.key
               /\ EarlierBlobKept]_vars

\* C21 happens: two files of different stems were uploaded through the
\* router and the store holds a blob of each
Witness_C21 ==
    /\ last.op = "upload"
    /\ last.entry = "router"
    /\ resp.status = 200
    /\ nreq = 2
    /\ {FileName("cleaned_a", "csv"), FileName("cleaned_b", "csv")} \subseteq DOMAIN store

====
